---- MODULE Spec2Model ----
(***************************************************************************)
(* Model of src/store.rs of matrix-sdk-crypto-wasm.                        *)
(*                                                                         *)
(*  - StoreHandle::open / open_indexeddb / open_with_key as asynchronous   *)
(*    calls.  Every call is cut at its await points: the code between two  *)
(*    awaits runs atomically (one wasm thread), the backend's open is in   *)
(*    flight in between and several calls may be in flight at once.        *)
(*  - the sensitive buffers (the passphrase String, the key Vec<u8>, the   *)
(*    Zeroizing<[u8; 32]> copy) as the bytes of their memory: zeroize      *)
(*    overwrites them with zeros, a plain drop leaves them as they are.    *)
(*  - the Arc<DynCryptoStore> behind a handle: memory stores are heap      *)
(*    objects freed with their last holder, IndexedDB stores live by name. *)
(*  - SecretsBundle: its accessors, to_json and from_json.                 *)
(***************************************************************************)
EXTENDS Integers, Sequences, FiniteSets, TLC

VARIABLES
    pc,                 \* per call: where the async fn stands
    op,                 \* per call: "none", "open" or "open_with_key"
    store_name,         \* per call: Option<String> argument
    store_passphrase,   \* per call: Option of the bytes in the passphrase buffer
    store_key,          \* per call: Option of the bytes in the caller's key buffer
    store_key_array,    \* per call: Option of the bytes of the Zeroizing<[u8; 32]>
    borrowed,           \* per call: the buffer lent to the backend call in flight
    io,                 \* per call: state of the backend open started by the call
    observed,           \* per call: Option of the secret bytes the backend read
    result,             \* per call: "pending", "Ok" or the error returned
    handle,             \* per call: Option of the store behind the returned handle
    holders,            \* per call: live holders of that Arc (handle and clones)
    written,            \* per call: data written through the handle or its clones
    memory,             \* heap of MemoryStore objects: Option of the stored data
    next_store,         \* the next fresh heap address for a MemoryStore
    db,                 \* IndexedDB: per name, Option of [cred, data]
    bundle,             \* Option of the SecretsBundle in hand
    json,               \* Option of the JsValue produced or received
    parsed              \* Option of the outcome of from_json

store_vars ==
    <<pc, op, store_name, store_passphrase, store_key, store_key_array, borrowed,
      io, observed, result, handle, holders, written, memory, next_store, db>>

bundle_vars == <<bundle, json, parsed>>

vars == <<store_vars, bundle_vars>>

----------------------------------------------------------------------------
(* Bounds *)

MaxCalls == 2

MaxHolders == 2

MaxData == 1

(* Program constants *)

KeyLen == 32

----------------------------------------------------------------------------
(* Option<T>: None is the empty tuple, Some(x) the one-element tuple. *)

None == <<>>

Some(x) == <<x>>

IsSome(o) == o # None

Unwrap(o) == o[1]

Calls == 1..MaxCalls

Data == 1..MaxData

Names == {"alice-device"}

(* Passphrases, as the (non-zero) bytes of the String. *)
CorrectHorse == <<99, 104>>

WrongHorse == <<119, 104>>

Passphrases == {CorrectHorse, WrongHorse}

(* Keys handed to openWithKey: one byte short, two of the right length, one
   byte long.  No byte of an input is zero. *)
Fill(n, b) == [i \in 1..n |-> b]

StoreKeys == {Fill(KeyLen - 1, 7), Fill(KeyLen, 7), Fill(KeyLen, 9), Fill(KeyLen + 1, 7)}

----------------------------------------------------------------------------
(* Sensitive buffers *)

(* Zeroize::zeroize on a String, a Vec<u8> or a [u8; 32]: every byte of the
   buffer becomes zero. *)
Zeroize(bytes) == [i \in DOMAIN bytes |-> 0]

ZeroizeOpt(buf) == IF IsSome(buf) THEN Some(Zeroize(Unwrap(buf))) ELSE None

Wiped(bytes) == \A i \in DOMAIN bytes : bytes[i] = 0

----------------------------------------------------------------------------
(* Errors.  Every failure reaches the caller as a JsError; its kind is where
   it was made: JsError::new at line 64, JsError::new at line 120, or the
   backend's IndexeddbCryptoStoreError converted by `?` (lines 60 and 128). *)

ConfigurationError == "ConfigurationError"

ValidationError == "ValidationError"

StoreOpenError == "StoreOpenError"

(* Variant: the memory store is made before the arguments are checked *)
OpenWithoutName_StoreFirst(passphrase) ==
    [error |-> IF IsSome(passphrase) THEN Some(ConfigurationError) ELSE None,
     new_store |-> TRUE]

(* The None arm of open's match: the passphrase check, then MemoryStore::new *)
OpenWithoutName(passphrase) ==
    IF IsSome(passphrase)
    THEN [error |-> Some(ConfigurationError), new_store |-> FALSE]
    ELSE [error |-> None, new_store |-> TRUE]

(* Variant: a longer key is accepted and cut to 32 bytes *)
TryInto_Truncating(key) ==
    IF Len(key) >= KeyLen THEN Some(SubSeq(key, 1, KeyLen)) ELSE None

(* Variant: the length is compared with the wrong constant *)
TryInto_WrongLength(key) == IF Len(key) = KeyLen + 1 THEN Some(key) ELSE None

(* store_key.as_slice().try_into(): the [u8; 32] copy, or None when the slice
   is not exactly 32 bytes long *)
TryInto(key) == IF Len(key) = KeyLen THEN Some(key) ELSE None

(* Variant: the backend is handed &store_key, which line 122 has wiped *)
OpenWithKeyArg_Vec == "store_key"

(* The buffer open_with_key lends to the backend: &store_key_array *)
OpenWithKeyArg == "store_key_array"

(* Variant: a plain [u8; 32], which its drop leaves as it is *)
DropZeroizing_Plain(bytes) == bytes

(* Drop of Zeroizing<[u8; 32]>: the array is zeroized when it goes out of scope *)
DropZeroizing(bytes) == Zeroize(bytes)

(* Variant: one shared store object instead of a new one per call *)
MemoryStoreNew_Shared(fresh) == 1

(* MemoryStore::new(): a new object at a fresh heap address *)
MemoryStoreNew(fresh) == fresh

MemoryHandle(sid) == [kind |-> "memory", mem |-> sid, name |-> ""]

IndexeddbHandle(name) == [kind |-> "indexeddb", mem |-> 0, name |-> name]

NoHolders == [handle |-> 0, store |-> 0]

Live(c) == holders[c].handle + holders[c].store

RECURSIVE LiveUpTo(_)
LiveUpTo(c) == IF c = 0 THEN 0 ELSE Live(c) + LiveUpTo(c - 1)

(* All live holders, of all stores *)
TotalLive == LiveUpTo(MaxCalls)

----------------------------------------------------------------------------
(* The persistent backend (matrix_sdk_indexeddb), at its interface: an open
   creates the named store with the given credentials when there is none,
   opens it when the credentials are those it was created with, and fails
   otherwise; any open may fail on I/O, an existing store may be corrupt. *)

Cred(kind, secret) == [kind |-> kind, secret |-> secret]

BackendOutcomes(name, cred) ==
    {"io_error"} \cup
        (IF IsSome(db[name])
         THEN IF Unwrap(db[name]).cred = cred
              THEN {"ok", "corrupt"}
              ELSE {"wrong_credentials"}
         ELSE {"ok"})

DbAfterOpen(name, cred) ==
    IF IsSome(db[name])
    THEN db
    ELSE [db EXCEPT ![name] = Some([cred |-> cred, data |-> {}])]

Buffer(c, which) ==
    CASE which = "store_passphrase" -> store_passphrase[c]
      [] which = "store_key" -> store_key[c]
      [] which = "store_key_array" -> store_key_array[c]

----------------------------------------------------------------------------
Init ==
    /\ pc = [c \in Calls |-> "idle"]
    /\ op = [c \in Calls |-> "none"]
    /\ store_name = [c \in Calls |-> None]
    /\ store_passphrase = [c \in Calls |-> None]
    /\ store_key = [c \in Calls |-> None]
    /\ store_key_array = [c \in Calls |-> None]
    /\ borrowed = [c \in Calls |-> "none"]
    /\ io = [c \in Calls |-> "not_started"]
    /\ observed = [c \in Calls |-> None]
    /\ result = [c \in Calls |-> "pending"]
    /\ handle = [c \in Calls |-> None]
    /\ holders = [c \in Calls |-> NoHolders]
    /\ written = [c \in Calls |-> {}]
    /\ memory = [s \in Calls |-> None]
    /\ next_store = 1
    /\ db = [n \in Names |-> None]
    /\ bundle = None
    /\ json = None
    /\ parsed = None

(* Calls are numbered in the order they are made. *)
CanStart(c) == pc[c] = "idle" /\ (c > 1 => pc[c - 1] # "idle")

(* StoreHandle::open (through open_for_js), up to its return or to the first
   await of open_indexeddb *)
Open(c, name, passphrase) ==
    /\ CanStart(c)
    /\ op' = [op EXCEPT ![c] = "open"]
    /\ store_name' = [store_name EXCEPT ![c] = name]
    /\ store_passphrase' = [store_passphrase EXCEPT ![c] = passphrase]
    /\ IF IsSome(name)
       THEN /\ pc' = [pc EXCEPT ![c] = IF IsSome(passphrase)
                                       THEN "await_open_with_passphrase"
                                       ELSE "await_open_with_name"]
            /\ borrowed' = [borrowed EXCEPT ![c] = IF IsSome(passphrase)
                                                   THEN "store_passphrase"
                                                   ELSE "none"]
            /\ io' = [io EXCEPT ![c] = "pending"]
            /\ UNCHANGED <<result, handle, holders, memory, next_store>>
       ELSE LET r == OpenWithoutName(passphrase)
                sid == MemoryStoreNew(next_store)
            IN /\ pc' = [pc EXCEPT ![c] = "returned"]
               /\ IF r.new_store
                  THEN /\ memory' = [memory EXCEPT ![sid] = Some({})]
                       /\ next_store' = next_store + 1
                  ELSE UNCHANGED <<memory, next_store>>
               /\ IF IsSome(r.error)
                  THEN /\ result' = [result EXCEPT ![c] = Unwrap(r.error)]
                       /\ UNCHANGED <<handle, holders>>
                  ELSE /\ result' = [result EXCEPT ![c] = "Ok"]
                       /\ handle' = [handle EXCEPT ![c] = Some(MemoryHandle(sid))]
                       /\ holders' = [holders EXCEPT ![c] = [handle |-> 1, store |-> 0]]
               /\ UNCHANGED <<borrowed, io>>
    /\ UNCHANGED <<store_key, store_key_array, observed, written, db, bundle_vars>>

(* open_indexeddb resumed at line 89, open resumed at line 60 *)
ResumeOpenWithPassphrase(c) ==
    /\ pc[c] = "await_open_with_passphrase"
    /\ LET name == Unwrap(store_name[c])
           secret == Unwrap(Buffer(c, borrowed[c]))
           cred == Cred("passphrase", secret)
       IN \E outcome \in BackendOutcomes(name, cred) :
            /\ observed' = [observed EXCEPT ![c] = Some(secret)]
            /\ io' = [io EXCEPT ![c] = outcome]
            /\ IF outcome = "ok"
               THEN /\ db' = DbAfterOpen(name, cred)
                    /\ store_passphrase' =
                           [store_passphrase EXCEPT ![c] = ZeroizeOpt(@)]
                    /\ result' = [result EXCEPT ![c] = "Ok"]
                    /\ handle' = [handle EXCEPT ![c] = Some(IndexeddbHandle(name))]
                    /\ holders' = [holders EXCEPT ![c] = [handle |-> 1, store |-> 0]]
               ELSE /\ result' = [result EXCEPT ![c] = StoreOpenError]
                    /\ UNCHANGED <<db, store_passphrase, handle, holders>>
    /\ pc' = [pc EXCEPT ![c] = "returned"]
    /\ borrowed' = [borrowed EXCEPT ![c] = "none"]
    /\ UNCHANGED <<op, store_name, store_key, store_key_array, written, memory,
                   next_store, bundle_vars>>

(* open_indexeddb resumed at line 95, open resumed at line 60 *)
ResumeOpenWithName(c) ==
    /\ pc[c] = "await_open_with_name"
    /\ LET name == Unwrap(store_name[c])
           cred == Cred("none", <<>>)
       IN \E outcome \in BackendOutcomes(name, cred) :
            /\ io' = [io EXCEPT ![c] = outcome]
            /\ IF outcome = "ok"
               THEN /\ db' = DbAfterOpen(name, cred)
                    /\ result' = [result EXCEPT ![c] = "Ok"]
                    /\ handle' = [handle EXCEPT ![c] = Some(IndexeddbHandle(name))]
                    /\ holders' = [holders EXCEPT ![c] = [handle |-> 1, store |-> 0]]
               ELSE /\ result' = [result EXCEPT ![c] = StoreOpenError]
                    /\ UNCHANGED <<db, handle, holders>>
    /\ pc' = [pc EXCEPT ![c] = "returned"]
    /\ UNCHANGED <<op, store_name, store_passphrase, store_key, store_key_array,
                   borrowed, observed, written, memory, next_store, bundle_vars>>

(* StoreHandle::open_with_key, up to its return at line 120 or to its await *)
OpenWithKey(c, name, key) ==
    /\ CanStart(c)
    /\ op' = [op EXCEPT ![c] = "open_with_key"]
    /\ store_name' = [store_name EXCEPT ![c] = Some(name)]
    /\ LET array == TryInto(key)
       IN IF IsSome(array)
          THEN /\ store_key_array' = [store_key_array EXCEPT ![c] = array]
               /\ store_key' = [store_key EXCEPT ![c] = Some(Zeroize(key))]
               /\ pc' = [pc EXCEPT ![c] = "await_open_with_key"]
               /\ borrowed' = [borrowed EXCEPT ![c] = OpenWithKeyArg]
               /\ io' = [io EXCEPT ![c] = "pending"]
               /\ UNCHANGED result
          ELSE /\ store_key' = [store_key EXCEPT ![c] = Some(key)]
               /\ result' = [result EXCEPT ![c] = ValidationError]
               /\ pc' = [pc EXCEPT ![c] = "returned"]
               /\ UNCHANGED <<store_key_array, borrowed, io>>
    /\ UNCHANGED <<store_passphrase, observed, handle, holders, written, memory,
                   next_store, db, bundle_vars>>

(* open_with_key resumed at line 128; store_key_array is dropped on return *)
ResumeOpenWithKey(c) ==
    /\ pc[c] = "await_open_with_key"
    /\ LET name == Unwrap(store_name[c])
           secret == Unwrap(Buffer(c, borrowed[c]))
           cred == Cred("key", secret)
       IN \E outcome \in BackendOutcomes(name, cred) :
            /\ observed' = [observed EXCEPT ![c] = Some(secret)]
            /\ io' = [io EXCEPT ![c] = outcome]
            /\ IF outcome = "ok"
               THEN /\ db' = DbAfterOpen(name, cred)
                    /\ result' = [result EXCEPT ![c] = "Ok"]
                    /\ handle' = [handle EXCEPT ![c] = Some(IndexeddbHandle(name))]
                    /\ holders' = [holders EXCEPT ![c] = [handle |-> 1, store |-> 0]]
               ELSE /\ result' = [result EXCEPT ![c] = StoreOpenError]
                    /\ UNCHANGED <<db, handle, holders>>
    /\ store_key_array' =
           [store_key_array EXCEPT ![c] = Some(DropZeroizing(Unwrap(@)))]
    /\ pc' = [pc EXCEPT ![c] = "returned"]
    /\ borrowed' = [borrowed EXCEPT ![c] = "none"]
    /\ UNCHANGED <<op, store_name, store_passphrase, store_key, written, memory,
                   next_store, bundle_vars>>

----------------------------------------------------------------------------
(* Holders of an opened store.  A StoreHandle owns an Arc<DynCryptoStore>:
   cloning the handle or converting it into the bare Arc adds no store, and the
   store object goes with its last holder. *)

StoreOf(c) == Unwrap(handle[c])

(* What a holder of call c's store reads from it *)
Visible(c) ==
    IF StoreOf(c).kind = "memory"
    THEN IF IsSome(memory[StoreOf(c).mem]) THEN Unwrap(memory[StoreOf(c).mem]) ELSE {}
    ELSE Unwrap(db[StoreOf(c).name]).data

(* #[derive(Clone)] on StoreHandle: Arc::clone *)
Clone(c) ==
    /\ holders[c].handle >= 1
    /\ TotalLive < MaxHolders
    /\ holders' = [holders EXCEPT ![c].handle = @ + 1]
    /\ UNCHANGED <<pc, op, store_name, store_passphrase, store_key, store_key_array,
                   borrowed, io, observed, result, handle, written, memory,
                   next_store, db, bundle_vars>>

(* IntoCryptoStore::into_crypto_store: self.store.clone(), then self is dropped *)
IntoCryptoStore(c) ==
    /\ holders[c].handle >= 1
    /\ holders' = [holders EXCEPT ![c] = [handle |-> @.handle - 1, store |-> @.store + 1]]
    /\ UNCHANGED <<pc, op, store_name, store_passphrase, store_key, store_key_array,
                   borrowed, io, observed, result, handle, written, memory,
                   next_store, db, bundle_vars>>

(* A holder (a handle when there is one, else a bare Arc) is dropped; the
   MemoryStore is freed with its last holder *)
Drop(c) ==
    /\ Live(c) >= 1
    /\ holders' = [holders EXCEPT ![c] = IF @.handle >= 1
                                         THEN [@ EXCEPT !.handle = @ - 1]
                                         ELSE [@ EXCEPT !.store = @ - 1]]
    /\ IF Live(c) = 1 /\ StoreOf(c).kind = "memory"
       THEN memory' = [memory EXCEPT ![StoreOf(c).mem] = None]
       ELSE UNCHANGED memory
    /\ UNCHANGED <<pc, op, store_name, store_passphrase, store_key, store_key_array,
                   borrowed, io, observed, result, handle, written, next_store, db,
                   bundle_vars>>

(* A holder of call c's store writes d to it (the CryptoStore interface) *)
Write(c, d) ==
    /\ Live(c) >= 1
    /\ d \notin written[c]
    /\ written' = [written EXCEPT ![c] = @ \cup {d}]
    /\ IF StoreOf(c).kind = "memory"
       THEN /\ memory' = [memory EXCEPT ![StoreOf(c).mem] = Some(Unwrap(@) \cup {d})]
            /\ UNCHANGED db
       ELSE /\ db' = [db EXCEPT ![StoreOf(c).name] =
                         Some([Unwrap(@) EXCEPT !.data = @ \cup {d}])]
            /\ UNCHANGED memory
    /\ UNCHANGED <<pc, op, store_name, store_passphrase, store_key, store_key_array,
                   borrowed, io, observed, result, handle, holders, next_store,
                   bundle_vars>>

Next ==
    \/ \E c \in Calls, name \in {None} \cup {Some(n) : n \in Names},
          passphrase \in {None} \cup {Some(p) : p \in Passphrases} :
            Open(c, name, passphrase)
    \/ \E c \in Calls : ResumeOpenWithPassphrase(c)
    \/ \E c \in Calls : ResumeOpenWithName(c)
    \/ \E c \in Calls, name \in Names, key \in StoreKeys : OpenWithKey(c, name, key)
    \/ \E c \in Calls : ResumeOpenWithKey(c)
    \/ \E c \in Calls : Clone(c)
    \/ \E c \in Calls : IntoCryptoStore(c)
    \/ \E c \in Calls : Drop(c)
    \/ \E c \in Calls, d \in Data : Write(c, d)

Spec == Init /\ [][Next]_vars

----------------------------------------------------------------------------
(* SecretsBundle *)

(* Unpadded base64, as the sequence of alphabet indices (0..63) *)
Pow2(n) == 2 ^ n

ByteAt(bytes, i) == IF i <= Len(bytes) THEN bytes[i] ELSE 0

to_base64(bytes) ==
    [k \in 1..((8 * Len(bytes) + 5) \div 6) |->
        LET o == 6 * (k - 1)
            i == (o \div 8) + 1
            r == o % 8
            w == ByteAt(bytes, i) * 256 + ByteAt(bytes, i + 1)
        IN (w \div Pow2(10 - r)) % 64]

(* The decoding: None for a length no encoding has *)
from_base64(chars) ==
    IF Len(chars) % 4 = 1
    THEN None
    ELSE Some([j \in 1..((6 * Len(chars)) \div 8) |->
                 LET o == 8 * (j - 1)
                     i == (o \div 6) + 1
                     r == o % 6
                     w == chars[i] * 64 + chars[i + 1]
                 IN (w \div Pow2(4 - r)) % 256])

(* serde's tag of BackupSecrets::MegolmBackupV1Curve25519AesSha2 *)
MegolmBackupV1Curve25519AesSha2 == "m.megolm_backup.v1.curve25519-aes-sha2"

(* matrix_sdk_crypto::types::SecretsBundle, the `inner` of the wrapper: three
   seeds (String, so never absent; the empty string is the nearest thing) and
   an Option<BackupSecrets>, an enum of one variant. *)
MasterSeeds == {"", "MASTERSEED"}

SelfSigningSeeds == {"", "SELFSEED"}

UserSigningSeeds == {"", "USERSEED"}

BackupKeys == {[i \in 1..32 |-> i], [i \in 1..32 |-> 255 - 3 * i]}

BackupVersions == {"v3", "v4"}

BackupSecrets ==
    [variant : {MegolmBackupV1Curve25519AesSha2}, key : BackupKeys,
     backup_version : BackupVersions]

Bundles ==
    [cross_signing : [master_key : MasterSeeds,
                      self_signing_key : SelfSigningSeeds,
                      user_signing_key : UserSigningSeeds],
     backup : {None} \cup {Some(b) : b \in BackupSecrets}]

master_key(b) == b.cross_signing.master_key

self_signing_key(b) == b.cross_signing.self_signing_key

user_signing_key(b) == b.cross_signing.user_signing_key

(* Variant: a best-effort bundle when there is nothing to extract *)
backup_bundle_BestEffort(b) ==
    IF IsSome(b.backup)
    THEN Some([key |-> to_base64(Unwrap(b.backup).key),
               backup_version |-> Unwrap(b.backup).backup_version])
    ELSE Some([key |-> <<>>, backup_version |-> ""])

backup_bundle(b) ==
    IF IsSome(b.backup) /\ Unwrap(b.backup).variant = MegolmBackupV1Curve25519AesSha2
    THEN Some([key |-> to_base64(Unwrap(b.backup).key),
               backup_version |-> Unwrap(b.backup).backup_version])
    ELSE None

(* Variant: the self-signing and user-signing seeds change places *)
to_value_SwappedSeeds(b) ==
    [cross_signing |-> Some([master_key |-> Some(b.cross_signing.master_key),
                             self_signing_key |-> Some(b.cross_signing.user_signing_key),
                             user_signing_key |-> Some(b.cross_signing.self_signing_key)]),
     backup |-> IF IsSome(b.backup)
                THEN Some([algorithm |-> Unwrap(b.backup).variant,
                           key |-> Some(to_base64(Unwrap(b.backup).key)),
                           backup_version |-> Some(Unwrap(b.backup).backup_version)])
                ELSE None]

(* serde_wasm_bindgen::to_value(&self.inner): the JS object.  A field of the
   object is an Option here: None when the object has no such property. *)
to_value(b) ==
    [cross_signing |-> Some([master_key |-> Some(b.cross_signing.master_key),
                             self_signing_key |-> Some(b.cross_signing.self_signing_key),
                             user_signing_key |-> Some(b.cross_signing.user_signing_key)]),
     backup |-> IF IsSome(b.backup)
                THEN Some([algorithm |-> Unwrap(b.backup).variant,
                           key |-> Some(to_base64(Unwrap(b.backup).key)),
                           backup_version |-> Some(Unwrap(b.backup).backup_version)])
                ELSE None]

Err == [ok |-> FALSE, value |-> None]

Ok(v) == [ok |-> TRUE, value |-> Some(v)]

(* serde_wasm_bindgen::from_value(json): every seed is required, the backup is
   optional, its algorithm tag must name a variant and its fields must parse *)
from_value(j) ==
    IF \/ ~IsSome(j.cross_signing)
       \/ ~IsSome(Unwrap(j.cross_signing).master_key)
       \/ ~IsSome(Unwrap(j.cross_signing).self_signing_key)
       \/ ~IsSome(Unwrap(j.cross_signing).user_signing_key)
    THEN Err
    ELSE LET cs == Unwrap(j.cross_signing)
             cross == [master_key |-> Unwrap(cs.master_key),
                       self_signing_key |-> Unwrap(cs.self_signing_key),
                       user_signing_key |-> Unwrap(cs.user_signing_key)]
         IN IF ~IsSome(j.backup)
            THEN Ok([cross_signing |-> cross, backup |-> None])
            ELSE LET bk == Unwrap(j.backup)
                 IN IF \/ bk.algorithm # MegolmBackupV1Curve25519AesSha2
                       \/ ~IsSome(bk.key)
                       \/ ~IsSome(bk.backup_version)
                       \/ ~IsSome(from_base64(Unwrap(bk.key)))
                    THEN Err
                    ELSE Ok([cross_signing |-> cross,
                             backup |-> Some([variant |-> bk.algorithm,
                                              key |-> Unwrap(from_base64(Unwrap(bk.key))),
                                              backup_version |-> Unwrap(bk.backup_version)])])

(* SecretsBundle::to_json *)
to_json(b) == to_value(b)

(* SecretsBundle::from_json *)
from_json(j) == from_value(j)

(* JS objects that did not come from to_json: well-formed ones and ones that
   lack a seed, lack the cross_signing object, carry a backup under another
   algorithm tag, or lack a field of the backup. *)
SampleBundle ==
    [cross_signing |-> [master_key |-> "MASTERSEED", self_signing_key |-> "",
                        user_signing_key |-> ""],
     backup |-> Some([variant |-> MegolmBackupV1Curve25519AesSha2,
                      key |-> [i \in 1..32 |-> i], backup_version |-> "v3"])]

ForeignJson ==
    LET good == to_value(SampleBundle)
        cs == Unwrap(good.cross_signing)
        bk == Unwrap(good.backup)
    IN { good,
         [good EXCEPT !.backup = None],
         [good EXCEPT !.cross_signing = None],
         [good EXCEPT !.cross_signing = Some([cs EXCEPT !.self_signing_key = None])],
         [good EXCEPT !.backup = Some([bk EXCEPT !.algorithm = "m.future_backup.v2"])],
         [good EXCEPT !.backup = Some([bk EXCEPT !.key = None])],
         [good EXCEPT !.backup = Some([bk EXCEPT !.backup_version = None])],
         [good EXCEPT !.backup = Some([bk EXCEPT !.key = Some(<<1>>)])] }

(* impl_from_to_inner!: the cryptographic core hands over a bundle *)
FromInner(b) ==
    /\ bundle' = Some(b)
    /\ json' = None
    /\ parsed' = None
    /\ UNCHANGED store_vars

(* bundle.to_json() *)
ToJson ==
    /\ IsSome(bundle)
    /\ json' = Some([from |-> "to_json", value |-> to_json(Unwrap(bundle))])
    /\ parsed' = None
    /\ UNCHANGED <<bundle, store_vars>>

(* A JS object arrives from elsewhere *)
ReceiveJson(j) ==
    /\ json' = Some([from |-> "foreign", value |-> j])
    /\ parsed' = None
    /\ UNCHANGED <<bundle, store_vars>>

(* SecretsBundle.from_json(json) *)
FromJson ==
    /\ IsSome(json)
    /\ parsed = None
    /\ parsed' = Some(from_json(Unwrap(json).value))
    /\ UNCHANGED <<bundle, json, store_vars>>

BundleNext ==
    \/ \E b \in Bundles : FromInner(b)
    \/ ToJson
    \/ \E j \in ForeignJson : ReceiveJson(j)
    \/ FromJson

BundleSpec == Init /\ [][BundleNext]_vars

----------------------------------------------------------------------------
(* Properties of open and openWithKey, under Spec *)

Returned(c) == pc[c] = "returned"

BackendFailures == {"io_error", "corrupt", "wrong_credentials"}

KeyCall(c) == op[c] = "open_with_key" /\ IsSome(store_key[c])

(* C1: a call open(absent name, present passphrase) returns a
   ConfigurationError in the step that makes it, and that step starts no
   backend open, touches no persistent store and creates no memory store. *)
C1_ConfigurationErrorWithoutIO ==
    [][\A c \in Calls :
          (pc[c] = "idle" /\ op'[c] = "open" /\ store_name'[c] = None
              /\ IsSome(store_passphrase'[c]))
          => /\ pc'[c] = "returned"
             /\ result'[c] = ConfigurationError
             /\ io' = io
             /\ db' = db
             /\ memory' = memory
             /\ next_store' = next_store
             /\ handle' = handle]_vars

C1_Witness ==
    \E c \in Calls :
        /\ op[c] = "open" /\ store_name[c] = None /\ IsSome(store_passphrase[c])
        /\ Returned(c) /\ result[c] = ConfigurationError

(* C2: whenever open has returned and a passphrase was supplied, the
   passphrase buffer holds only wiped bytes, whatever the outcome. *)
C2_PassphraseWipedOnEveryExit ==
    \A c \in Calls :
        (Returned(c) /\ op[c] = "open" /\ IsSome(store_passphrase[c]))
        => Wiped(Unwrap(store_passphrase[c]))

(* C3: whenever openWithKey has returned for a key that is not 32 bytes long,
   the key buffer holds only wiped bytes. *)
C3_RejectedKeyWiped ==
    \A c \in Calls :
        (Returned(c) /\ KeyCall(c) /\ Len(Unwrap(store_key[c])) # KeyLen)
        => Wiped(Unwrap(store_key[c]))

(* C4: a call openWithKey with a key that is not 32 bytes long has returned a
   ValidationError, and its backend open was never started: nothing is in
   flight, nothing was read by the backend, no copy of the key was made. *)
C4_BadLengthRejectedBeforeIO ==
    \A c \in Calls :
        (KeyCall(c) /\ Len(Unwrap(store_key[c])) # KeyLen)
        => /\ Returned(c)
           /\ result[c] = ValidationError
           /\ io[c] = "not_started"
           /\ observed[c] = None
           /\ store_key_array[c] = None
           /\ handle[c] = None

C4_Witness ==
    /\ \E c \in Calls :
          KeyCall(c) /\ Len(Unwrap(store_key[c])) < KeyLen /\ result[c] = ValidationError
    /\ \E c \in Calls :
          KeyCall(c) /\ Len(Unwrap(store_key[c])) > KeyLen /\ result[c] = ValidationError

(* C5: whenever openWithKey has returned for a 32-byte key, with a handle or
   with a StoreOpenError, the caller's key buffer and the internal 32-byte
   copy both hold only wiped bytes. *)
C5_KeyCopiesWipedOnReturn ==
    \A c \in Calls :
        (Returned(c) /\ KeyCall(c) /\ Len(Unwrap(store_key[c])) = KeyLen)
        => /\ result[c] \in {"Ok", StoreOpenError}
           /\ Wiped(Unwrap(store_key[c]))
           /\ IsSome(store_key_array[c])
           /\ Wiped(Unwrap(store_key_array[c]))

C5_Witness ==
    \E c1, c2 \in Calls :
        /\ Returned(c1) /\ KeyCall(c1) /\ result[c1] = "Ok"
        /\ Returned(c2) /\ KeyCall(c2) /\ result[c2] = StoreOpenError
        /\ IsSome(observed[c1]) /\ IsSome(observed[c2])

(* C6: the three error kinds are distinct, and a returned call reports
   StoreOpenError exactly when its backend open failed (I/O error, corrupt
   store, wrong key or passphrase), ConfigurationError and ValidationError
   only when no backend open was started, and never ValidationError for a
   32-byte key. *)
C6_ErrorKindFollowsCause ==
    /\ Cardinality({ConfigurationError, ValidationError, StoreOpenError}) = 3
    /\ \A c \in Calls :
          Returned(c)
          => /\ (result[c] = StoreOpenError) <=> (io[c] \in BackendFailures)
             /\ (result[c] \in {ConfigurationError, ValidationError})
                    => io[c] = "not_started"
             /\ (result[c] = "Ok") <=> (io[c] \in {"ok", "not_started"} /\ IsSome(handle[c]))
             /\ (KeyCall(c) /\ Len(Unwrap(store_key[c])) = KeyLen)
                    => result[c] # ValidationError

(* "correct horse" creates the store, "wrong horse" then fails to open it *)
C6_Witness ==
    \E c1, c2 \in Calls :
        /\ op[c1] = "open" /\ store_name[c1] = Some("alice-device")
        /\ observed[c1] = Some(CorrectHorse) /\ result[c1] = "Ok"
        /\ op[c2] = "open" /\ store_name[c2] = Some("alice-device")
        /\ observed[c2] = Some(WrongHorse) /\ io[c2] = "wrong_credentials"
        /\ result[c2] = StoreOpenError

MemoryCall(c) == op[c] = "open" /\ store_name[c] = None /\ store_passphrase[c] = None

(* C7: a call open(absent, absent) has returned a handle on a memory store of
   its own: no backend open was started, no other call's handle is on the
   same store, what its holders read is exactly what was written through
   them (nothing at first), and the store is gone with its last holder. *)
C7_MemoryStoreIsPrivate ==
    \A c \in Calls :
        MemoryCall(c)
        => /\ Returned(c)
           /\ result[c] = "Ok"
           /\ io[c] = "not_started"
           /\ IsSome(handle[c])
           /\ StoreOf(c).kind = "memory"
           /\ \A c2 \in Calls \ {c} : IsSome(handle[c2]) => StoreOf(c2) # StoreOf(c)
           /\ Live(c) >= 1 => (IsSome(memory[StoreOf(c).mem]) /\ Visible(c) = written[c])
           /\ Live(c) = 0 => memory[StoreOf(c).mem] = None

C7_Witness ==
    \E c1, c2 \in Calls :
        /\ MemoryCall(c1) /\ written[c1] # {} /\ Live(c1) = 0
        /\ MemoryCall(c2) /\ Live(c2) >= 1 /\ Visible(c2) = {}

(* C10: while a backend open is in flight the buffer lent to it is not wiped,
   and the secret the backend read was never a wiped one; this holds with
   several calls in flight. *)
C10_NoWipeBeforeLastRead ==
    \A c \in Calls :
        /\ borrowed[c] # "none"
              => /\ IsSome(Buffer(c, borrowed[c]))
                 /\ ~Wiped(Unwrap(Buffer(c, borrowed[c])))
        /\ (pc[c] = "await_open_with_passphrase") => borrowed[c] = "store_passphrase"
        /\ (pc[c] = "await_open_with_key") => borrowed[c] # "none"
        /\ IsSome(observed[c]) => ~Wiped(Unwrap(observed[c]))

C10_Witness ==
    \E c1, c2 \in Calls :
        /\ op[c1] = "open" /\ Returned(c1) /\ IsSome(observed[c1])
        /\ Wiped(Unwrap(store_passphrase[c1]))
        /\ pc[c2] = "await_open_with_key" /\ Wiped(Unwrap(store_key[c2]))

----------------------------------------------------------------------------
(* Properties of SecretsBundle, under BundleSpec *)

SameFields(a, b) ==
    /\ master_key(a) = master_key(b)
    /\ self_signing_key(a) = self_signing_key(b)
    /\ user_signing_key(a) = user_signing_key(b)
    /\ backup_bundle(a) = backup_bundle(b)

FromToJson == IsSome(json) /\ Unwrap(json).from = "to_json" /\ IsSome(parsed)

(* C8: from_json of the object to_json made of a bundle succeeds, and the
   bundle it yields has the master, self-signing and user-signing keys and the
   backup bundle (key and backup_version) of the original. *)
C8_JsonRoundTrip ==
    FromToJson
    => /\ Unwrap(parsed).ok
       /\ SameFields(Unwrap(Unwrap(parsed).value), Unwrap(bundle))

C8_Witness ==
    /\ FromToJson
    /\ bundle = Some(SampleBundle)
    /\ Unwrap(parsed).ok
    /\ master_key(Unwrap(Unwrap(parsed).value)) = "MASTERSEED"
    /\ Unwrap(backup_bundle(Unwrap(Unwrap(parsed).value))).backup_version = "v3"

(* C9: backup_bundle gives a bundle exactly when the backup secrets are
   present under the recognized algorithm, and then their key (in base64) and
   backup_version; an object whose backup carries any other tag never yields a
   bundle to extract from, whatever its key and backup_version fields. *)
C9_BackupBundleOnlyForRecognized ==
    /\ IsSome(bundle)
       => LET b == Unwrap(bundle)
          IN /\ IsSome(backup_bundle(b))
                  <=> (IsSome(b.backup)
                       /\ Unwrap(b.backup).variant = MegolmBackupV1Curve25519AesSha2)
             /\ IsSome(backup_bundle(b))
                  => /\ Unwrap(backup_bundle(b)).key = to_base64(Unwrap(b.backup).key)
                     /\ Unwrap(backup_bundle(b)).backup_version
                            = Unwrap(b.backup).backup_version
    /\ (IsSome(json) /\ IsSome(parsed))
       => LET j == Unwrap(json).value
              tagged == IsSome(j.backup)
                        /\ Unwrap(j.backup).algorithm = MegolmBackupV1Curve25519AesSha2
          IN /\ (IsSome(j.backup) /\ ~tagged) => ~Unwrap(parsed).ok
             /\ Unwrap(parsed).ok
                  => LET got == backup_bundle(Unwrap(Unwrap(parsed).value))
                     IN /\ IsSome(got) <=> tagged
                        /\ IsSome(got)
                             => /\ Some(Unwrap(got).key) = Unwrap(j.backup).key
                                /\ Some(Unwrap(got).backup_version)
                                       = Unwrap(j.backup).backup_version

C9_Witness ==
    /\ IsSome(bundle) /\ backup_bundle(Unwrap(bundle)) = None
    /\ IsSome(json) /\ Unwrap(json).from = "foreign"
    /\ IsSome(parsed) /\ Unwrap(parsed).ok
    /\ IsSome(backup_bundle(Unwrap(Unwrap(parsed).value)))

====
